---- MODULE Spec2Model ----
(***************************************************************************)
(* Model of samples/tutorials/SimpleTriangle/jni/Native.cpp: the one-shot  *)
(* graphics setup (loadShader, createProgram, setupGraphics) and the       *)
(* per-frame benchmark driver (renderFrame), as called by the host through *)
(* the two JNI entry points init and step.                                 *)
(*                                                                         *)
(* One action per entry point.  Every action records in `calls` the        *)
(* ordered list of GL calls, clock reads, container operations and log     *)
(* calls that the handler made, so that ordering inside one handler can be *)
(* stated over a single state.                                             *)
(***************************************************************************)
EXTENDS Integers, Sequences, FiniteSets, TLC

(***************************************************************************)
(* Bounds of the exploration.                                              *)
(***************************************************************************)
MaxFrames == 2001       \* step() calls explored after a clean setup (two flush
                        \* periods and one frame)
MaxShortFrames == 21    \* step() calls explored after any other setup
MaxSlope == 1           \* timing profiles: slope of the measured duration
DtRange == 4            \* period of the variation of the measured durations
MaxInfoLen == 1         \* longest driver diagnostic log
MaxLoc == 1             \* attribute / uniform locations lie in 0..MaxLoc
MaxToggleN == 5         \* instance counts tried on the per-scenario bodies

(***************************************************************************)
(* Program constants.                                                      *)
(***************************************************************************)
k_MaxStatCount == 100
k_Instances == 100
indexCount == 65535
CycleLength == 10
SizeofFloat == 4
SizeofUShort == 2

(***************************************************************************)
(* The ten sample buffers, in declaration order, and the value of s_Step   *)
(* tested by the branch that appends to each of them.                      *)
(***************************************************************************)
BufferOrder ==
    << "O", "OCP", "SMSR", "SMDR", "DM", "SMSRScissors", "SMSRColor",
       "SMSRDepth", "SMSRStencil", "SMSRShader" >>

Buffers == { BufferOrder[i] : i \in 1..Len(BufferOrder) }

Ord(b) == CHOOSE i \in 1..Len(BufferOrder) : BufferOrder[i] = b

\* the re-copy branch tested against a value s_Step never takes
BranchStep_reCopyAtTen(b) ==
    IF b = "OCP" THEN 10 ELSE IF b = "O" THEN 0 ELSE Ord(b) - 2

BranchStep(b) ==
    CASE b = "O"            -> 0
      [] b = "OCP"          -> 0
      [] b = "SMSR"         -> 1
      [] b = "SMDR"         -> 2
      [] b = "DM"           -> 3
      [] b = "SMSRScissors" -> 4
      [] b = "SMSRColor"    -> 5
      [] b = "SMSRDepth"    -> 6
      [] b = "SMSRStencil"  -> 7
      [] b = "SMSRShader"   -> 8

\* the flush test one frame early
FlushStep_early == CycleLength - 2

FlushStep == 9

VARIABLES
    hostPc,                  \* "boot" before init() was called, "running" after
    setupResult,             \* what setupGraphics returned: "none", "true", "false"
    simpleTriangleProgram,
    simpleTriangleProgram2,
    vPosition,
    fColor,
    initialized,
    verts,                   \* floats allocated for verts, 0 for nullptr
    indices,                 \* GLushorts allocated for indices, 0 for nullptr
    vbo,
    ibo,
    s_Step,
    s_StatCount,
    timings,                 \* the ten vector<int>, by name
    depthTest,               \* GL_DEPTH_TEST enablement of the context
    stencilTest,             \* GL_STENCIL_TEST enablement of the context
    glLocations,             \* the context's linked programs: handle -> locations
    glBuffers,               \* buffer names glGenBuffers has handed out so far
    log,                     \* the lines given to LOGI / LOGE, oldest first
    calls,                   \* what the last handler did, in order
    frames,                  \* completed step() calls
    slope                    \* the timing profile of this run

vars ==
    << hostPc, setupResult, simpleTriangleProgram, simpleTriangleProgram2,
       vPosition, fColor, initialized, verts, indices, vbo, ibo, s_Step,
       s_StatCount, timings, depthTest, stencilTest, glLocations, glBuffers, log,
       calls, frames, slope >>

(***************************************************************************)
(* Entries of `calls` and of `log`.                                        *)
(***************************************************************************)
Call(op, a, b) == [op |-> op, a |-> a, b |-> b]

Line(level, msg, args) == [level |-> level, msg |-> msg, args |-> args]

RECURSIVE Flatten(_)
Flatten(ss) == IF ss = << >> THEN << >> ELSE Head(ss) \o Flatten(Tail(ss))

Positions(cs, ops) == { i \in 1..Len(cs) : cs[i].op \in ops }

Count(cs, ops) == Cardinality(Positions(cs, ops))

MaxOf(S) == CHOOSE m \in S : \A x \in S : x <= m

(***************************************************************************)
(* Pieces of renderFrame.                                                  *)
(***************************************************************************)
Loop(n, F(_)) == Flatten([i \in 1..n |-> F(i - 1)])

VertexAttribPointer(offset) == Call("glVertexAttribPointer", vPosition, offset)

DrawElements(count, offset) == Call("glDrawElements", count, offset)

Now == Call("high_resolution_clock::now", 0, 0)

\* whatever ? a : b, with whatever starting false and flipped after every draw
Whatever(i) == i % 2 = 1

\* the duration the clock reports for the branch of buffer b in this frame
Elapsed(b) == Ord(b) + slope * (((frames \div CycleLength) + Ord(b)) % DtRange)

\* a lazy block that runs in every frame
NeedsLazyInit_always == TRUE

\* if (!initialized)
NeedsLazyInit == ~initialized

\* a lazy block that never sets its flag
InitializedAfter_forgotten == FALSE

\* initialized = true
InitializedAfter == TRUE

\* indices[i] = i, stored in a GLushort
IndexAt(i) == i % 65536

LazyInit ==
    << Call("glGetString(GL_VERSION)", 0, 0),
       Call("LOGI", 0, 0),
       Call("glGetString(GL_SHADING_LANGUAGE_VERSION)", 0, 0),
       Call("LOGI", 0, 0),
       Call("glGetString(GL_VENDOR)", 0, 0),
       Call("LOGI", 0, 0),
       Call("glGetString(GL_RENDERER)", 0, 0),
       Call("LOGI", 0, 0),
       Call("new GLfloat[]", k_Instances * 6, 0),
       Call("glGenBuffers", glBuffers + 1, 0),
       Call("glBindBuffer(GL_ARRAY_BUFFER)", glBuffers + 1, 0),
       Call("glBufferData(GL_ARRAY_BUFFER)", SizeofFloat * k_Instances * 6, 0),
       Call("new GLushort[]", indexCount, 0),
       Call("glGenBuffers", glBuffers + 2, 0),
       Call("glBindBuffer(GL_ELEMENT_ARRAY_BUFFER)", glBuffers + 2, 0),
       Call("glBufferData(GL_ELEMENT_ARRAY_BUFFER)", SizeofUShort * indexCount, 0),
       Call("initialized = true", 0, 0) >>

LazyInitLines ==
    << Line("I", "BENCHMARK *** Version", << >>),
       Line("I", "BENCHMARK *** Shader Version", << >>),
       Line("I", "BENCHMARK *** Vendor", << >>),
       Line("I", "BENCHMARK *** Renderer", << >>) >>

CommonSetup(vboNow, iboNow) ==
    << Call("glClearColor", 0, 0),
       Call("glClear", 0, 0),
       Call("glUseProgram", simpleTriangleProgram, 0),
       Call("glEnableVertexAttribArray", vPosition, 0),
       Call("glUniform4f", fColor, 0),
       Call("glBindBuffer(GL_ARRAY_BUFFER)", vboNow, 0),
       Call("glBindBuffer(GL_ELEMENT_ARRAY_BUFFER)", iboNow, 0) >>

\* no warm-up draw, and a warm-up draw one triangle past the last
Warmup_none(n) == << >>

Warmup_pastEnd(n) ==
    << VertexAttribPointer(n * 6 * SizeofFloat),
       DrawElements(3, 0) >>

Warmup(n) ==
    << VertexAttribPointer((n - 1) * 6 * SizeofFloat),
       DrawElements(3, 0) >>

PushBack(b, dt) == Call("push_back", Ord(b), dt)

DrawOnce(n, dt) ==
    << Now, VertexAttribPointer(0), DrawElements(n * 3, 0), Now,
       PushBack("O", dt) >>

DrawOnceReCopy(n, dt) ==
    << Now,
       Call("glBufferData(GL_ELEMENT_ARRAY_BUFFER)", SizeofUShort * indexCount, 0),
       VertexAttribPointer(0), DrawElements(n * 3, 0), Now,
       PushBack("OCP", dt) >>

SameMeshSameRange(n, dt) ==
    << Now, VertexAttribPointer(0) >>
    \o Loop(n, LAMBDA i : << DrawElements(3, 0) >>)
    \o << Now, PushBack("SMSR", dt) >>

\* index offsets counted in indices instead of bytes
SameMeshDifferentRanges_noSizeof(n, dt) ==
    << Now, VertexAttribPointer(0) >>
    \o Loop(n, LAMBDA i : << DrawElements(3, i * 3) >>)
    \o << Now, PushBack("SMDR", dt) >>

SameMeshDifferentRanges(n, dt) ==
    << Now, VertexAttribPointer(0) >>
    \o Loop(n, LAMBDA i : << DrawElements(3, i * 3 * SizeofUShort) >>)
    \o << Now, PushBack("SMDR", dt) >>

DifferentMeshes(n, dt) ==
    << Now >>
    \o Loop(n, LAMBDA i : << VertexAttribPointer(i * 6 * SizeofFloat),
                             DrawElements(3, 0) >>)
    \o << Now, PushBack("DM", dt) >>

ScissorsChange(n, dt) ==
    << Now, VertexAttribPointer(0) >>
    \o Loop(n, LAMBDA i : << Call("glScissor", 10 + i, 10 + i),
                             DrawElements(3, 0) >>)
    \o << Now, PushBack("SMSRScissors", dt) >>

ColorChange(n, dt) ==
    << Now, VertexAttribPointer(0) >>
    \o Loop(n, LAMBDA i : << Call("glUniform4f", fColor, n - i),
                             DrawElements(3, 0) >>)
    \o << Now, PushBack("SMSRColor", dt) >>

\* the depth scenario with glEnable after the clock start
DepthTestChange_enableTimed(n, dt) ==
    << Now, Call("glEnable(GL_DEPTH_TEST)", 0, 0), VertexAttribPointer(0) >>
    \o Loop(n, LAMBDA i :
              << Call(IF Whatever(i) THEN "glDepthFunc(GL_EQUAL)"
                                     ELSE "glDepthFunc(GL_NOTEQUAL)", 0, 0),
                 DrawElements(3, 0) >>)
    \o << Now, PushBack("SMSRDepth", dt),
          Call("glDisable(GL_DEPTH_TEST)", 0, 0) >>

\* the depth scenario without its closing glDisable
DepthTestChange_leftEnabled(n, dt) ==
    << Call("glEnable(GL_DEPTH_TEST)", 0, 0), Now, VertexAttribPointer(0) >>
    \o Loop(n, LAMBDA i :
              << Call(IF Whatever(i) THEN "glDepthFunc(GL_EQUAL)"
                                     ELSE "glDepthFunc(GL_NOTEQUAL)", 0, 0),
                 DrawElements(3, 0) >>)
    \o << Now, PushBack("SMSRDepth", dt) >>

DepthTestChange(n, dt) ==
    << Call("glEnable(GL_DEPTH_TEST)", 0, 0), Now, VertexAttribPointer(0) >>
    \o Loop(n, LAMBDA i :
              << Call(IF Whatever(i) THEN "glDepthFunc(GL_EQUAL)"
                                     ELSE "glDepthFunc(GL_NOTEQUAL)", 0, 0),
                 DrawElements(3, 0) >>)
    \o << Now, PushBack("SMSRDepth", dt),
          Call("glDisable(GL_DEPTH_TEST)", 0, 0) >>

StencilChange(n, dt) ==
    << Call("glEnable(GL_STENCIL_TEST)", 0, 0), Now, VertexAttribPointer(0) >>
    \o Loop(n, LAMBDA i :
              << Call(IF Whatever(i) THEN "glStencilFunc(GL_INCR_WRAP)"
                                     ELSE "glStencilFunc(GL_DECR_WRAP)",
                      i % 256, 255),
                 DrawElements(3, 0) >>)
    \o << Now, PushBack("SMSRStencil", dt),
          Call("glDisable(GL_STENCIL_TEST)", 0, 0) >>

ShaderChange(n, dt) ==
    << Now, VertexAttribPointer(0) >>
    \o Loop(n, LAMBDA i :
              << Call("glUseProgram",
                      IF Whatever(i) THEN simpleTriangleProgram
                                     ELSE simpleTriangleProgram2, 0),
                 DrawElements(3, 0) >>)
    \o << Now, PushBack("SMSRShader", dt) >>

Branch(b, n, dt) ==
    CASE b = "O"            -> DrawOnce(n, dt)
      [] b = "OCP"          -> DrawOnceReCopy(n, dt)
      [] b = "SMSR"         -> SameMeshSameRange(n, dt)
      [] b = "SMDR"         -> SameMeshDifferentRanges(n, dt)
      [] b = "DM"           -> DifferentMeshes(n, dt)
      [] b = "SMSRScissors" -> ScissorsChange(n, dt)
      [] b = "SMSRColor"    -> ColorChange(n, dt)
      [] b = "SMSRDepth"    -> DepthTestChange(n, dt)
      [] b = "SMSRStencil"  -> StencilChange(n, dt)
      [] b = "SMSRShader"   -> ShaderChange(n, dt)

\* a guard written with >= instead of ==
Guard_atLeast(b) == s_Step >= BranchStep(b)

\* the condition of the if statement in front of the branch of buffer b
Guard(b) == s_Step = BranchStep(b)

\* the ten timed if statements, in source order
TimedBranches ==
    Flatten([i \in 1..Len(BufferOrder) |->
                IF Guard(BufferOrder[i])
                THEN Branch(BufferOrder[i], k_Instances, Elapsed(BufferOrder[i]))
                ELSE << >>])

\* the vectors after the push_back calls of this frame
Pushed ==
    [b \in Buffers |->
        IF Guard(b) THEN Append(timings[b], Elapsed(b)) ELSE timings[b]]

\* glEnable / glDisable of one capability, applied in call order
EnabledAfter(cs, cap, before) ==
    LET on == "glEnable(" \o cap \o ")"
        off == "glDisable(" \o cap \o ")"
        at == Positions(cs, {on, off})
    IN  IF at = {} THEN before ELSE cs[MaxOf(at)].op = on

(***************************************************************************)
(* Flush Statistics.                                                       *)
(***************************************************************************)
\* a flush that forgets to sort
Sort_none(v) == v

\* std::sort with operator<
Sort(v) == SortSeq(v, LAMBDA x, y : x < y)

\* the lower of the two middle elements
MedianIndex_lower(count) == (count - 1) \div 2

\* s_StatCount >> 1
MedianIndex(count) == count \div 2

\* a flush one pass late, and a flush one pass early
FlushDue_late(count) == count = k_MaxStatCount + 1

FlushDue_early(count) == count = k_MaxStatCount - 1

\* the right operand of &&: the counter after ++ compared with the capacity
FlushDue(count) == count = k_MaxStatCount

\* v[i] of a vector<int>; reading past the end gives whatever is there
At(v, i, garbage) == IF i < Len(v) THEN v[i + 1] ELSE garbage

MedianMsg == "BENCHMARK *** n = | O = | 0CP = | SMSR = | SMDR = | DM = | SMSRScissors = | SMSRColor = | SMSRDepth = | SMSRStencil = | SMSRShader ="

MedianLine(ts, count, garbage) ==
    Line("I", MedianMsg,
         << k_Instances >> \o
         [i \in 1..Len(BufferOrder) |->
             At(Sort(ts[BufferOrder[i]]), MedianIndex(count), garbage)])

FlushCalls(count) ==
    [i \in 1..Len(BufferOrder) |-> Call("sort", i, 0)]
    \o << Call("LOGI", MedianIndex(count), 0) >>
    \o [i \in 1..Len(BufferOrder) |-> Call("clear", i, 0)]
    \o << Call("s_StatCount = 0", 0, 0) >>

\* the last if statement: s_Step == 9 && ++s_StatCount == k_MaxStatCount
FlushStatistics ==
    IF s_Step = FlushStep
    THEN << Call("++s_StatCount", 0, 0) >>
         \o (IF FlushDue(s_StatCount + 1) THEN FlushCalls(s_StatCount + 1) ELSE << >>)
    ELSE << >>

Flushes == s_Step = FlushStep /\ FlushDue(s_StatCount + 1)

\* a counter that skips a value
NextStep_skip(step) == (step + 2) % CycleLength

\* s_Step = (s_Step + 1) % 10
NextStep(step) == (step + 1) % CycleLength

(***************************************************************************)
(* renderFrame, called by the JNI entry point step.                        *)
(***************************************************************************)
renderFrame(garbage) ==
    LET lazy == IF NeedsLazyInit THEN LazyInit ELSE << >>
        vboNow == IF NeedsLazyInit THEN glBuffers + 1 ELSE vbo
        iboNow == IF NeedsLazyInit THEN glBuffers + 2 ELSE ibo
        done == << Call("step", 0, 0) >> \o lazy \o CommonSetup(vboNow, iboNow)
                \o Warmup(k_Instances) \o TimedBranches \o FlushStatistics
    IN  /\ calls' = done
        /\ initialized' = IF NeedsLazyInit THEN InitializedAfter ELSE initialized
        /\ verts' = IF NeedsLazyInit THEN k_Instances * 6 ELSE verts
        /\ indices' = IF NeedsLazyInit THEN indexCount ELSE indices
        /\ glBuffers' = IF NeedsLazyInit THEN glBuffers + 2 ELSE glBuffers
        /\ vbo' = vboNow
        /\ ibo' = iboNow
        /\ depthTest' = EnabledAfter(done, "GL_DEPTH_TEST", depthTest)
        /\ stencilTest' = EnabledAfter(done, "GL_STENCIL_TEST", stencilTest)
        /\ timings' = IF Flushes THEN [b \in Buffers |-> << >>] ELSE Pushed
        /\ s_StatCount' = IF s_Step = FlushStep
                          THEN (IF Flushes THEN 0 ELSE s_StatCount + 1)
                          ELSE s_StatCount
        /\ log' = log \o (IF NeedsLazyInit THEN LazyInitLines ELSE << >>)
                      \o (IF Flushes
                          THEN << MedianLine(Pushed, s_StatCount + 1, garbage) >>
                          ELSE << >>)
        /\ s_Step' = NextStep(s_Step)

\* the values a read past the end of a vector may give
Garbage ==
    IF Flushes /\ \E b \in Buffers : MedianIndex(s_StatCount + 1) >= Len(Pushed[b])
    THEN 0..(DtRange - 1)
    ELSE {0}

\* Runs are followed for MaxFrames frames when the driver accepted both
\* programs and put every location at 0, and for MaxShortFrames frames after
\* every other outcome of setup.
CleanSetup ==
    /\ setupResult = "true"
    /\ simpleTriangleProgram2 # 0
    /\ \A p \in DOMAIN glLocations : glLocations[p] = [attrib |-> 0, uniform |-> 0]

FrameBound == IF CleanSetup THEN MaxFrames ELSE MaxShortFrames

NativeLibrary_step ==
    /\ hostPc = "running"
    /\ frames < FrameBound
    /\ \E garbage \in Garbage : renderFrame(garbage)
    /\ frames' = frames + 1
    /\ UNCHANGED << hostPc, setupResult, simpleTriangleProgram,
                    simpleTriangleProgram2, vPosition, fColor, glLocations,
                    slope >>

(***************************************************************************)
(* What the GL driver and the allocator may answer during setup.           *)
(***************************************************************************)
Bit(flag) == IF flag THEN 1 ELSE 0

\* glCreateShader, GL_COMPILE_STATUS, GL_INFO_LOG_LENGTH, malloc
ShaderOutcomes ==
    { [created |-> FALSE, compiled |-> FALSE, infoLen |-> 0, mallocOk |-> TRUE],
      [created |-> TRUE, compiled |-> TRUE, infoLen |-> 0, mallocOk |-> TRUE] }
    \cup { [created |-> TRUE, compiled |-> FALSE, infoLen |-> l, mallocOk |-> m] :
             l \in 0..MaxInfoLen, m \in BOOLEAN }

\* glCreateProgram, GL_LINK_STATUS, GL_INFO_LOG_LENGTH, malloc
LinkOutcomes ==
    { [created |-> FALSE, linked |-> FALSE, bufLength |-> 0, mallocOk |-> TRUE],
      [created |-> TRUE, linked |-> TRUE, bufLength |-> 0, mallocOk |-> TRUE] }
    \cup { [created |-> TRUE, linked |-> FALSE, bufLength |-> l, mallocOk |-> m] :
             l \in 0..MaxInfoLen, m \in BOOLEAN }

ProgramOutcomes == [vs : ShaderOutcomes, fs : ShaderOutcomes, link : LinkOutcomes]

Locs == [attrib : 0..MaxLoc, uniform : 0..MaxLoc]

Sizes == { << 1080, 1920 >>, << 1, 1 >> }

Returned(value, cs, lines) == [value |-> value, calls |-> cs, lines |-> lines]

(***************************************************************************)
(* loadShader: `name` is the handle glCreateShader hands out if it works.  *)
(***************************************************************************)
loadShader(shaderType, d, name) ==
    LET create == << Call("glCreateShader(" \o shaderType \o ")",
                          IF d.created THEN name ELSE 0, 0) >>
        compile == << Call("glShaderSource", name, 0),
                      Call("glCompileShader", name, 0),
                      Call("glGetShaderiv(GL_COMPILE_STATUS)", name, Bit(d.compiled)) >>
        infoLog == << Call("glGetShaderiv(GL_INFO_LOG_LENGTH)", name, d.infoLen) >>
        report == << Call("glGetShaderInfoLog", name, d.infoLen),
                     Call("LOGE", 0, 0),
                     Call("free", 0, 0) >>
        delete == << Call("glDeleteShader", name, 0) >>
        malloc == << Call("malloc", d.infoLen, Bit(d.mallocOk)) >>
    IN  IF ~d.created
        THEN Returned(0, create, << >>)
        ELSE IF d.compiled
        THEN Returned(name, create \o compile, << >>)
        ELSE IF d.infoLen = 0
        THEN Returned(name, create \o compile \o infoLog, << >>)
        ELSE IF d.mallocOk
        THEN Returned(0, create \o compile \o infoLog \o malloc \o report \o delete,
                      << Line("E", "Could not Compile Shader " \o shaderType, << >>) >>)
        ELSE Returned(0, create \o compile \o infoLog \o malloc \o delete, << >>)

(***************************************************************************)
(* createProgram: the driver links only shaders that compiled.             *)
(***************************************************************************)
LinkStatus(o) == o.link.linked /\ o.vs.compiled /\ o.fs.compiled

createProgram(fragmentSource, o, base) ==
    LET vertexShader == loadShader("GL_VERTEX_SHADER", o.vs, base + 1)
        fragmentShader == loadShader("GL_FRAGMENT_SHADER(" \o fragmentSource \o ")",
                                     o.fs, base + 2)
        program == base + 3
        create == << Call("glCreateProgram", IF o.link.created THEN program ELSE 0, 0) >>
        link == << Call("glAttachShader", program, vertexShader.value),
                   Call("glAttachShader", program, fragmentShader.value),
                   Call("glLinkProgram", program, 0),
                   Call("glGetProgramiv(GL_LINK_STATUS)", program, Bit(LinkStatus(o))) >>
        infoLog == << Call("glGetProgramiv(GL_INFO_LOG_LENGTH)", program,
                           o.link.bufLength) >>
        malloc == << Call("malloc", o.link.bufLength, Bit(o.link.mallocOk)) >>
        report == << Call("glGetProgramInfoLog", program, o.link.bufLength),
                     Call("LOGE", 0, 0),
                     Call("free", 0, 0) >>
        delete == << Call("glDeleteProgram", program, 0) >>
        shaders == vertexShader.calls \o fragmentShader.calls
        lines == vertexShader.lines \o fragmentShader.lines
    IN  IF vertexShader.value = 0
        THEN Returned(0, vertexShader.calls, vertexShader.lines)
        ELSE IF fragmentShader.value = 0
        THEN Returned(0, shaders, lines)
        ELSE IF ~o.link.created
        THEN Returned(0, shaders \o create, lines)
        ELSE IF LinkStatus(o)
        THEN Returned(program, shaders \o create \o link, lines)
        ELSE IF o.link.bufLength = 0
        THEN Returned(0, shaders \o create \o link \o infoLog \o delete, lines)
        ELSE IF o.link.mallocOk
        THEN Returned(0, shaders \o create \o link \o infoLog \o malloc \o report
                         \o delete,
                      lines \o << Line("E", "Could not link program", << >>) >>)
        ELSE Returned(0, shaders \o create \o link \o infoLog \o malloc \o delete,
                      lines)

(***************************************************************************)
(* setupGraphics, called by the JNI entry point init.                      *)
(***************************************************************************)
NoLocations == [p \in {} |-> 0]

\* glGetAttribLocation / glGetUniformLocation: -1 for a program that is not linked
GetLocations(table, program) ==
    IF program \in DOMAIN table THEN table[program]
                                ELSE [attrib |-> -1, uniform |-> -1]

\* GLuint x = <GLint>: the value modulo 2^32, kept as its two 16-bit halves
ToGLuint(x) ==
    IF x >= 0 THEN << x \div 65536, x % 65536 >>
              ELSE << 32768 + ((x + 2147483647 + 1) \div 65536),
                      (x + 2147483647 + 1) % 65536 >>

\* the program handed to the second pair of location queries
SecondQueryProgram(primary, secondary) == primary

SetupFails(w, h, p1) ==
    /\ simpleTriangleProgram' = 0
    /\ log' = log \o p1.lines \o << Line("E", "Could not create program", << >>) >>
    /\ calls' = << Call("init", w, h) >> \o p1.calls \o << Call("LOGE", 0, 0) >>
    /\ setupResult' = "false"
    /\ UNCHANGED << simpleTriangleProgram2, vPosition, fColor, glLocations >>

SetupGoesOn(w, h, p1, p2, loc1, loc2) ==
    LET table == [p \in {p1.value} \cup (IF p2.value # 0 THEN {p2.value} ELSE {}) |->
                     IF p = p1.value THEN loc1 ELSE loc2]
        first == GetLocations(table, p1.value)
        second == GetLocations(table, SecondQueryProgram(p1.value, p2.value))
        vPosition2 == ToGLuint(second.attrib)
        fColor2 == ToGLuint(second.uniform)
        mismatch == ToGLuint(first.attrib) # vPosition2
                    \/ ToGLuint(first.uniform) # fColor2
    IN  /\ simpleTriangleProgram' = p1.value
        /\ vPosition' = ToGLuint(first.attrib)
        /\ fColor' = ToGLuint(first.uniform)
        /\ simpleTriangleProgram2' = p2.value
        /\ glLocations' = table
        /\ log' = log \o p1.lines \o p2.lines
                  \o (IF mismatch
                      THEN << Line("E", "BENCHMARK *** SHADER 2 ERROR", << >>) >>
                      ELSE << >>)
                  \o << Line("I", "fColor=", << ToGLuint(first.uniform) >>) >>
        /\ calls' = << Call("init", w, h) >> \o p1.calls
                    \o << Call("glGetAttribLocation", p1.value, first.attrib),
                          Call("glGetUniformLocation", p1.value, first.uniform) >>
                    \o p2.calls
                    \o << Call("glGetAttribLocation",
                               SecondQueryProgram(p1.value, p2.value), second.attrib),
                          Call("glGetUniformLocation",
                               SecondQueryProgram(p1.value, p2.value), second.uniform) >>
                    \o (IF mismatch THEN << Call("LOGE", 0, 0) >> ELSE << >>)
                    \o << Call("LOGI", 0, 0), Call("glViewport", w, h) >>
        /\ setupResult' = "true"

setupGraphics(w, h) ==
    \E o1 \in ProgramOutcomes :
        LET p1 == createProgram("glFragmentShader", o1, 0)
        IN  IF p1.value = 0
            THEN SetupFails(w, h, p1)
            ELSE \E o2 \in ProgramOutcomes, loc1 \in Locs, loc2 \in Locs :
                    SetupGoesOn(w, h, p1,
                                createProgram("glFragmentShader2", o2, 3), loc1, loc2)

NativeLibrary_init ==
    /\ hostPc = "boot"
    /\ \E size \in Sizes : setupGraphics(size[1], size[2])
    /\ hostPc' = "running"
    /\ UNCHANGED << initialized, verts, indices, vbo, ibo, s_Step, s_StatCount,
                    timings, depthTest, stencilTest, glBuffers, frames, slope >>

(***************************************************************************)
(* The process: static initialisation, then the host calls init once and   *)
(* step once per frame.                                                    *)
(***************************************************************************)
Init ==
    /\ hostPc = "boot"
    /\ setupResult = "none"
    /\ simpleTriangleProgram = 0
    /\ simpleTriangleProgram2 = 0
    /\ vPosition = ToGLuint(0)
    /\ fColor = ToGLuint(0)
    /\ initialized = FALSE
    /\ verts = 0
    /\ indices = 0
    /\ glBuffers = 0
    /\ vbo = 0
    /\ ibo = 0
    /\ s_Step = 0
    /\ s_StatCount = 0
    /\ timings = [b \in Buffers |-> << >>]
    /\ depthTest = FALSE
    /\ stencilTest = FALSE
    /\ glLocations = NoLocations
    /\ log = << >>
    /\ calls = << >>
    /\ frames = 0
    /\ slope \in 0..MaxSlope

Next == NativeLibrary_init \/ NativeLibrary_step

Spec == Init /\ [][Next]_vars

TypeOK ==
    /\ hostPc \in {"boot", "running"}
    /\ setupResult \in {"none", "true", "false"}
    /\ s_Step \in 0..(CycleLength - 1)
    /\ s_StatCount \in Nat
    /\ frames \in 0..FrameBound
    /\ initialized \in BOOLEAN
    /\ depthTest \in BOOLEAN
    /\ stencilTest \in BOOLEAN

(***************************************************************************)
(* Vocabulary of the properties.                                           *)
(***************************************************************************)
AfterStep == calls # << >> /\ calls[1].op = "step"

AfterInit == calls # << >> /\ calls[1].op = "init"

\* the last step() sorted, logged and cleared
FlushedLastFrame == AfterStep /\ Count(calls, {"s_StatCount = 0"}) > 0

MedianLines == Cardinality({ i \in 1..Len(log) : log[i].msg = MedianMsg })

\* push_back calls on the buffer of ordinal i made by the last handler
PushesTo(cs, i) == Cardinality({ j \in 1..Len(cs) : cs[j].op = "push_back" /\ cs[j].a = i })

(***************************************************************************)
(* C1: in every step() exactly one scenario branch executes: one timed     *)
(* body (one push_back) or a pass through the flush scenario, never two.   *)
(***************************************************************************)
C1_ExactlyOneBranch ==
    AfterStep => Count(calls, {"push_back"}) + Count(calls, {"++s_StatCount"}) = 1

(***************************************************************************)
(* C2: after N completed step() calls s_Step equals N mod 10.              *)
(***************************************************************************)
C2_CycleInvariant == s_Step = frames % 10

C2_Witness == frames = 1001 /\ s_Step = 1 /\ MedianLines = 1

(***************************************************************************)
(* C3: the counter wraps at the number of drawing scenarios (one per       *)
(* sample buffer) plus one flush scenario, each scenario having a frame of *)
(* its own in the cycle.                                                   *)
(***************************************************************************)
C3_CycleLength ==
    [][frames' = frames + 1 =>
          s_Step' = (s_Step + 1) % (Cardinality(Buffers) + 1)]_vars

(***************************************************************************)
(* C4: no sample buffer is ever longer than 100, and every sample buffer   *)
(* is empty in the state right after a flush.                              *)
(***************************************************************************)
C4_Capacity ==
    /\ \A b \in Buffers : Len(timings[b]) <= 100
    /\ FlushedLastFrame => \A b \in Buffers : Len(timings[b]) = 0

C4_Witness == FlushedLastFrame /\ frames = 1000

(***************************************************************************)
(* C5: a flush happens in the 1000th, 2000th, ... frame (the 100th pass    *)
(* through the flush scenario) and in no other frame; after it every       *)
(* buffer is empty, the flush counter is 0 and one more median line has    *)
(* been logged.                                                            *)
(***************************************************************************)
C5_FlushPeriod ==
    /\ MedianLines = frames \div 1000
    /\ FlushedLastFrame <=> (frames > 0 /\ frames % 1000 = 0)
    /\ frames % 1000 = 0 =>
          /\ \A b \in Buffers : timings[b] = << >>
          /\ s_StatCount = 0
    /\ frames % 1000 = 999 => \A b \in Buffers : Len(timings[b]) = 100

C5_Witness == frames = 2000 /\ MedianLines = 2 /\ s_StatCount = 0

(***************************************************************************)
(* C6: at every flush the value logged for a scenario is the element at    *)
(* index len >> 1 of that scenario's buffer in ascending order, len being  *)
(* the length of that buffer: at most len >> 1 samples are smaller and     *)
(* more than len >> 1 samples are not larger.                              *)
(***************************************************************************)
IsOrderStatistic(value, v, k) ==
    /\ \E i \in 1..Len(v) : v[i] = value
    /\ Cardinality({ i \in 1..Len(v) : v[i] < value }) <= k
    /\ Cardinality({ i \in 1..Len(v) : v[i] <= value }) > k

C6_Median ==
    [][(MedianLines' = MedianLines + 1) =>
          \A i \in 1..Len(BufferOrder) :
              IsOrderStatistic(log'[Len(log')].args[i + 1],
                               timings[BufferOrder[i]],
                               Len(timings[BufferOrder[i]]) \div 2)]_vars

C6_Witness ==
    /\ FlushedLastFrame
    /\ slope > 0
    /\ log[Len(log)].msg = MedianMsg
    /\ \E i, j \in 2..Len(log[Len(log)].args) :
          log[Len(log)].args[i] # log[Len(log)].args[j]

(***************************************************************************)
(* C7: a step() appends one measurement to each buffer whose scenario is   *)
(* active in that frame (s_Step 0 for O and OCP, 1 for SMSR, ... 8 for     *)
(* SMSRShader) and none to the others; after 100 step() calls s_TimingsO   *)
(* holds 10 measurements and nothing was flushed.                          *)
(***************************************************************************)
ActiveIn(i, step) == step = (IF i = 1 THEN 0 ELSE i - 2)

C7_OnePerActiveFrame ==
    /\ [](frames = 100 => Len(timings["O"]) = 10 /\ MedianLines = 0)
    /\ [][frames' = frames + 1 =>
             \A i \in 1..Len(BufferOrder) :
                 LET got == IF ActiveIn(i, s_Step) THEN 1 ELSE 0
                 IN  /\ PushesTo(calls', i) = got
                     /\ MedianLines' = MedianLines =>
                           Len(timings'[BufferOrder[i]])
                               = Len(timings[BufferOrder[i]]) + got]_vars

C7_Witness == frames = 100 /\ Len(timings["O"]) = 10 /\ Len(timings["SMSRShader"]) = 10

(***************************************************************************)
(* C8: the depth test and the stencil test are disabled at every frame     *)
(* boundary; a step() enables one of them only in its own scenario, before *)
(* the function changes of that scenario, and disables it again after      *)
(* them, whatever the instance count.                                      *)
(***************************************************************************)
Bracketed(cs, cap, inner, buffer) ==
    LET on == Positions(cs, {"glEnable(" \o cap \o ")"})
        off == Positions(cs, {"glDisable(" \o cap \o ")"})
        changes == Positions(cs, inner)
    IN  /\ Cardinality(on) = Cardinality(off)
        /\ Cardinality(on) <= 1
        /\ on # {} =>
              /\ \A e \in on, c \in changes, d \in off : e < c /\ c < d
              /\ \A j \in Positions(cs, {"push_back"}) : cs[j].a = Ord(buffer)
        /\ on = {} => changes = {}

C8_TogglesRestored ==
    /\ ~depthTest
    /\ ~stencilTest
    /\ AfterStep =>
          /\ Bracketed(calls, "GL_DEPTH_TEST",
                       {"glDepthFunc(GL_EQUAL)", "glDepthFunc(GL_NOTEQUAL)"},
                       "SMSRDepth")
          /\ Bracketed(calls, "GL_STENCIL_TEST",
                       {"glStencilFunc(GL_INCR_WRAP)", "glStencilFunc(GL_DECR_WRAP)"},
                       "SMSRStencil")
    /\ \A n \in 0..MaxToggleN :
          /\ ~EnabledAfter(DepthTestChange(n, 0), "GL_DEPTH_TEST", FALSE)
          /\ ~EnabledAfter(StencilChange(n, 0), "GL_STENCIL_TEST", FALSE)
          /\ Count(DepthTestChange(n, 0), {"glDrawElements"}) = n
          /\ Count(StencilChange(n, 0), {"glDrawElements"}) = n

C8_Witness ==
    /\ AfterStep
    /\ Count(calls, {"glEnable(GL_DEPTH_TEST)"}) = 1
    /\ Count(calls, {"glDepthFunc(GL_EQUAL)"}) = 50
    /\ ~depthTest

(***************************************************************************)
(* C9: setupGraphics returns false whenever the driver reported a failed   *)
(* compilation (GL_COMPILE_STATUS 0) or a failed link (GL_LINK_STATUS 0)   *)
(* during it.                                                              *)
(***************************************************************************)
C9_FailureReturnsFailure ==
    (AfterInit /\ \E i \in 1..Len(calls) :
                     /\ calls[i].op \in {"glGetShaderiv(GL_COMPILE_STATUS)",
                                         "glGetProgramiv(GL_LINK_STATUS)"}
                     /\ calls[i].b = 0)
    => setupResult = "false"

(***************************************************************************)
(* C10: when the secondary program is linked and its locations differ from *)
(* the primary program's, setupGraphics logs the mismatch error (and still *)
(* returns true).                                                          *)
(***************************************************************************)
C10_MismatchLogged ==
    (/\ AfterInit
     /\ simpleTriangleProgram2 \in DOMAIN glLocations
     /\ glLocations[simpleTriangleProgram2] # glLocations[simpleTriangleProgram])
    => /\ \E i \in 1..Len(log) : log[i].msg = "BENCHMARK *** SHADER 2 ERROR"
       /\ setupResult = "true"

(***************************************************************************)
(* C11: once setupGraphics has returned false, no step() issues a draw     *)
(* call or appends a sample.                                               *)
(***************************************************************************)
C11_NoBenchmarkAfterFailure ==
    (AfterStep /\ setupResult = "false")
    => Count(calls, {"glDrawElements", "push_back"}) = 0

Timed(cs) ==
    { j \in 1..Len(cs) :
        /\ cs[j].op # "high_resolution_clock::now"
        /\ Cardinality({ t \in 1..j : cs[t].op = "high_resolution_clock::now" }) % 2 = 1 }

\* the elements of a set of positions, in increasing order
RECURSIVE Ascending(_)
Ascending(S) ==
    IF S = {} THEN << >>
    ELSE LET least == CHOOSE x \in S : \A y \in S : x <= y
         IN  << least >> \o Ascending(S \ {least})

StridedDraws(cs, n) ==
    LET draws == Ascending(Timed(cs) \cap Positions(cs, {"glDrawElements"}))
    IN  /\ Len(draws) = n
        /\ \A k \in 1..n : cs[draws[k]].a = 3 /\ cs[draws[k]].b = 6 * (k - 1)
        /\ \A k \in 1..(n - 1) :
              cs[draws[k]].b + 3 * 2 <= cs[draws[k + 1]].b

C13_DistinctRanges ==
    /\ (AfterStep /\ PushesTo(calls, Ord("SMDR")) = 1) => StridedDraws(calls, 100)
    /\ \A n \in 0..MaxToggleN : StridedDraws(SameMeshDifferentRanges(n, 0), n)

C13_Witness ==
    /\ AfterStep
    /\ PushesTo(calls, Ord("SMDR")) = 1
    /\ \E j \in 1..Len(calls) : calls[j].op = "glDrawElements" /\ calls[j].b = 594

(***************************************************************************)
(* C14: s_StatCount stays within 0..99 at frame boundaries; a step() with  *)
(* s_Step = 9 adds one to it, going back to 0 instead of reaching 100, and *)
(* every other step() leaves it unchanged.                                 *)
(***************************************************************************)
C14_FlushCounter ==
    /\ [](s_StatCount >= 0 /\ s_StatCount < 100)
    /\ [][frames' = frames + 1 =>
             s_StatCount' = IF s_Step = 9
                            THEN (IF s_StatCount + 1 = 100 THEN 0 ELSE s_StatCount + 1)
                            ELSE s_StatCount]_vars

C14_Witness == s_StatCount = 99 /\ s_Step = 9 /\ frames = 999

(***************************************************************************)
(* C15: every step() issues exactly one draw outside the timed intervals:  *)
(* the warm-up draw of the last triangle (3 indices from offset 0, with    *)
(* the attribute pointer at byte 99 * 6 * 4 = 2376), after the common      *)
(* state setup and before the first clock read.                            *)
(***************************************************************************)
CommonOps ==
    { "glClearColor", "glClear", "glEnableVertexAttribArray",
      "glBindBuffer(GL_ARRAY_BUFFER)", "glBindBuffer(GL_ELEMENT_ARRAY_BUFFER)" }

C15_WarmupUntimed ==
    /\ AfterStep =>
          LET untimed == Positions(calls, {"glDrawElements"}) \ Timed(calls)
          IN  /\ Cardinality(untimed) = 1
              /\ \A w \in untimed :
                    /\ calls[w].a = 3 /\ calls[w].b = 0
                    /\ calls[w - 1].op = "glVertexAttribPointer"
                    /\ calls[w - 1].b = 2376
                    /\ \A c \in Positions(calls, CommonOps) : c < w - 1
                    /\ \E c \in Positions(calls, {"glUseProgram"}) : c < w - 1
                    /\ \E c \in Positions(calls, {"glUniform4f"}) : c < w - 1
                    /\ \A t \in Positions(calls, {"high_resolution_clock::now"}) : w < t
    /\ \A n \in 1..MaxToggleN :
          Len(Warmup(n)) = 2 /\ Warmup(n)[1].b = (n - 1) * 24

C15_Witness ==
    /\ AfterStep
    /\ Count(calls, {"high_resolution_clock::now"}) = 4
    /\ Count(calls, {"glDrawElements"}) = 3

(***************************************************************************)
(* C16: between a clock start and its clock stop a step() makes only the   *)
(* GL calls of the scenario body: no push_back, sort, clear, log, counter  *)
(* update, glEnable or glDisable; each push_back directly follows a clock  *)
(* stop.                                                                   *)
(***************************************************************************)
BodyOps ==
    { "glVertexAttribPointer", "glDrawElements",
      "glBufferData(GL_ELEMENT_ARRAY_BUFFER)", "glScissor", "glUniform4f",
      "glDepthFunc(GL_EQUAL)", "glDepthFunc(GL_NOTEQUAL)",
      "glStencilFunc(GL_INCR_WRAP)", "glStencilFunc(GL_DECR_WRAP)",
      "glUseProgram" }

C16_TimedRegionClean ==
    AfterStep =>
        /\ Count(calls, {"high_resolution_clock::now"}) % 2 = 0
        /\ \A j \in Timed(calls) : calls[j].op \in BodyOps
        /\ \A p \in Positions(calls, {"push_back"}) :
              /\ p \notin Timed(calls)
              /\ calls[p - 1].op = "high_resolution_clock::now"

C16_Witness ==
    /\ AfterStep
    /\ PushesTo(calls, Ord("SMSRDepth")) = 1
    /\ \E e \in Positions(calls, {"glEnable(GL_DEPTH_TEST)"}) :
          calls[e + 1].op = "high_resolution_clock::now"
    /\ Cardinality(Timed(calls)) = 201

(***************************************************************************)
(* C17: whenever s_Step is 0 at a frame boundary, the ten buffers all hold *)
(* s_StatCount samples; at a flush every buffer holds 100 samples and the  *)
(* median index is inside every buffer.                                    *)
(***************************************************************************)
C17_EqualLengths ==
    /\ [](s_Step = 0 => \A b \in Buffers : Len(timings[b]) = s_StatCount)
    /\ [][MedianLines' = MedianLines + 1 =>
             \A b \in Buffers :
                 /\ Len(timings[b]) = 100
                 /\ (s_StatCount + 1) \div 2 < Len(timings[b])]_vars

C17_Witness ==
    /\ frames = 990
    /\ s_Step = 0
    /\ s_StatCount = 99
    /\ \A b \in Buffers : Len(timings[b]) = 99

(***************************************************************************)
(* C18: every draw of a step() reads index positions below 65535 only, and *)
(* every vertex it fetches (attribute pointer offset + 8 bytes per index   *)
(* value) lies inside the 2400 bytes (300 vertices) of the vertex buffer;  *)
(* every index stored in the GLushort array equals its position.           *)
(***************************************************************************)
\* the glVertexAttribPointer call in force at position j, 0 if there is none
PointerBefore(cs, j) ==
    LET last == { v \in 1..(j - 1) :
                    /\ cs[v].op = "glVertexAttribPointer"
                    /\ \A u \in (v + 1)..(j - 1) : cs[u].op # "glVertexAttribPointer" }
    IN  IF last = {} THEN 0 ELSE CHOOSE v \in last : TRUE

DrawInBounds(cs, j) ==
    LET v == PointerBefore(cs, j)
        first == cs[j].b \div 2
        count == cs[j].a
    IN  /\ v # 0
        /\ cs[j].b % 2 = 0
        /\ first >= 0
        /\ first + count <= 65535
        /\ \A k \in first..(first + count - 1) :
              /\ cs[v].b >= 0
              /\ cs[v].b + 8 * (IndexAt(k) + 1) <= 2400

C18_DrawsInBounds ==
    /\ AfterStep => \A j \in Positions(calls, {"glDrawElements"}) : DrawInBounds(calls, j)
    /\ (AfterStep /\ frames = 1) =>
          /\ indices = 65535
          /\ verts = 600
          /\ \A i \in 0..(indices - 1) : IndexAt(i) = i

C18_Witness ==
    /\ AfterStep
    /\ PushesTo(calls, Ord("DM")) = 1
    /\ \E j \in Timed(calls) :
          calls[j].op = "glVertexAttribPointer" /\ calls[j].b = 2376

(***************************************************************************)
(* C19: the lazy block (array allocation, glGenBuffers, uploads) runs in   *)
(* the first step() only, before every draw of that frame; initialized     *)
(* becomes true there and stays true.                                      *)
(***************************************************************************)
LazyOps ==
    { "new GLfloat[]", "new GLushort[]", "glGenBuffers",
      "glBufferData(GL_ARRAY_BUFFER)", "initialized = true" }

C19_LazyOnce ==
    /\ [](/\ initialized <=> frames > 0
          /\ glBuffers = (IF frames > 0 THEN 2 ELSE 0)
          /\ AfterStep =>
                /\ Count(calls, {"glGenBuffers"}) = (IF frames = 1 THEN 2 ELSE 0)
                /\ \A op \in LazyOps \ {"glGenBuffers"} :
                      Count(calls, {op}) = (IF frames = 1 THEN 1 ELSE 0)
                /\ Cardinality(Positions(calls, {"glBufferData(GL_ELEMENT_ARRAY_BUFFER)"})
                               \ Timed(calls)) = (IF frames = 1 THEN 1 ELSE 0)
                /\ \A l \in Positions(calls, LazyOps),
                      d \in Positions(calls, {"glDrawElements"}) : l < d)
    /\ [][initialized => initialized']_vars

C19_Witness ==
    /\ AfterStep
    /\ frames = 2
    /\ initialized
    /\ glBuffers = 2
    /\ Count(calls, {"glGenBuffers"}) = 0

====
